---------------------------- MODULE Spec2Model ----------------------------
(***************************************************************************)
(* A model of server.py: the /api/calculate-tax handler with its two       *)
(* bracket calculators, and the /api/chat handler with the chat_messages   *)
(* collection it reads its context from.                                   *)
(*                                                                         *)
(* Units.  The amounts of a request (income, deductions) and the amounts   *)
(* derived from them by addition and subtraction only (total_deductions,   *)
(* taxable_income) are whole rupees.  Every amount that has been through   *)
(* a multiplication by a rate (tax_amount, cess, total_tax) is kept in     *)
(* thousandths of a rupee, so that 0.05, 0.10, 0.15, 0.20, 0.30 and 0.04   *)
(* are applied exactly: 20000.1 rupees is 20000100.  effective_rate is     *)
(* kept in hundredths of a percent, the precision round(x, 2) leaves:      *)
(* 9.23 is 923.  The arithmetic is exact decimal arithmetic: the error of  *)
(* Python's binary floats (about 1e-16 of the value) is not modelled.      *)
(***************************************************************************)
EXTENDS Integers, Sequences, FiniteSets

VARIABLES
  request,        \* the body of the last POST /api/calculate-tax
  response,       \* the answer to it
  chat_messages,  \* db.chat_messages, in insertion order
  clock,          \* datetime.now(timezone.utc), one tick per document built
  handlers        \* the chat_with_assistant coroutines in flight

vars == <<request, response, chat_messages, clock, handlers>>

taxVars == <<request, response>>
chatVars == <<chat_messages, clock, handlers>>

-----------------------------------------------------------------------------
(* Bounds of the model *)

\* Incomes tried: every bracket floor and rebate threshold, as taxable income
\* and as gross income under the new regime's standard deduction, each with
\* the IncomeSpread rupees below and above it.
IncomeSpread == 1

-----------------------------------------------------------------------------
(* Arithmetic helpers *)

Min(a, b) == IF a <= b THEN a ELSE b

Max(a, b) == IF a >= b THEN a ELSE b

\* rupees * (pct / 100), in thousandths of a rupee
TimesRate(rupees, pct) == rupees * pct * 10

\* n / d rounded to the nearest integer, a tie going to the even neighbour:
\* Python's round() on a value that lies exactly half way.
RoundHalfEven(n, d) ==
  LET f == n \div d
      r == n % d
  IN  IF 2 * r < d THEN f
      ELSE IF 2 * r > d THEN f + 1
      ELSE IF f % 2 = 0 THEN f ELSE f + 1


-----------------------------------------------------------------------------
(* POST /api/calculate-tax: the request bodies tried *)

Floors == {0, 250000, 300000, 500000, 700000, 1000000, 1200000, 1500000}

Incomes ==
  {i \in {f + s + d : f \in Floors, s \in {0, 75000},
                      d \in (0 - IncomeSpread)..IncomeSpread} : i >= 0}

Deductions80C == {0, 150000, 200000}
Deductions80D == {0, 30000, 80000}
HraExemptions == {0, 50000}
OtherDeductions == {0, 20000}

\* "flat" stands for every string that is neither "old" nor "new"
Regimes == {"old", "new", "flat"}

\* has_income: whether the body carries the required field `income`; a body
\* without it is given income 0 here, which nothing reads.
Bodies ==
  [has_income : {TRUE}, income : Incomes, deductions_80c : Deductions80C,
   deductions_80d : Deductions80D, hra_exemption : HraExemptions,
   other_deductions : OtherDeductions, regime : Regimes]
  \cup
  [has_income : {FALSE}, income : {0}, deductions_80c : Deductions80C,
   deductions_80d : Deductions80D, hra_exemption : HraExemptions,
   other_deductions : OtherDeductions, regime : Regimes]

NoRequest == [has_income |-> FALSE, regime |-> "none"]

NoResponse == [status |-> 0]

-----------------------------------------------------------------------------
(* The bracket calculators *)

calculate_tax_old_regime_flat_top(taxable_income) ==
  IF taxable_income <= 250000 THEN 0
  ELSE IF taxable_income <= 500000
    THEN TimesRate(taxable_income - 250000, 5)
  ELSE IF taxable_income <= 1000000
    THEN 12500000 + TimesRate(taxable_income - 500000, 20)
  ELSE 12500000 + TimesRate(taxable_income - 1000000, 30)

calculate_tax_old_regime(taxable_income) ==
  IF taxable_income <= 250000 THEN 0
  ELSE IF taxable_income <= 500000
    THEN TimesRate(taxable_income - 250000, 5)
  ELSE IF taxable_income <= 1000000
    THEN 12500000 + TimesRate(taxable_income - 500000, 20)
  ELSE 12500000 + 100000000 + TimesRate(taxable_income - 1000000, 30)

\* the 5% bracket carried on above 700000
calculate_tax_new_regime_wide_5(taxable_income) ==
  IF taxable_income <= 300000 THEN 0
  ELSE IF taxable_income <= 1000000
    THEN TimesRate(taxable_income - 300000, 5)
  ELSE IF taxable_income <= 1200000
    THEN 20000000 + 30000000 + TimesRate(taxable_income - 1000000, 15)
  ELSE IF taxable_income <= 1500000
    THEN 20000000 + 30000000 + 30000000
           + TimesRate(taxable_income - 1200000, 20)
  ELSE 20000000 + 30000000 + 30000000 + 60000000
         + TimesRate(taxable_income - 1500000, 30)

\* the 15% bracket without the 30000 of the 10% bracket below it
calculate_tax_new_regime_short_15(taxable_income) ==
  IF taxable_income <= 300000 THEN 0
  ELSE IF taxable_income <= 700000
    THEN TimesRate(taxable_income - 300000, 5)
  ELSE IF taxable_income <= 1000000
    THEN 20000000 + TimesRate(taxable_income - 700000, 10)
  ELSE IF taxable_income <= 1200000
    THEN 20000000 + TimesRate(taxable_income - 1000000, 15)
  ELSE IF taxable_income <= 1500000
    THEN 20000000 + 30000000 + 30000000
           + TimesRate(taxable_income - 1200000, 20)
  ELSE 20000000 + 30000000 + 30000000 + 60000000
         + TimesRate(taxable_income - 1500000, 30)

calculate_tax_new_regime(taxable_income) ==
  IF taxable_income <= 300000 THEN 0
  ELSE IF taxable_income <= 700000
    THEN TimesRate(taxable_income - 300000, 5)
  ELSE IF taxable_income <= 1000000
    THEN 20000000 + TimesRate(taxable_income - 700000, 10)
  ELSE IF taxable_income <= 1200000
    THEN 20000000 + 30000000 + TimesRate(taxable_income - 1000000, 15)
  ELSE IF taxable_income <= 1500000
    THEN 20000000 + 30000000 + 30000000
           + TimesRate(taxable_income - 1200000, 20)
  ELSE 20000000 + 30000000 + 30000000 + 60000000
         + TimesRate(taxable_income - 1500000, 30)

-----------------------------------------------------------------------------
(* calculate_tax, step by step *)

old_regime_deductions_uncapped_80c(req) ==
  req.deductions_80c + Min(req.deductions_80d, 75000)
    + req.hra_exemption + req.other_deductions

old_regime_deductions(req) ==
  Min(req.deductions_80c, 150000) + Min(req.deductions_80d, 75000)
    + req.hra_exemption + req.other_deductions

new_regime_deductions_plus_other(req) == 75000 + req.other_deductions

new_regime_deductions(req) == 75000

rebate_87a_exclusive(taxable_income, tax_amount) ==
  IF taxable_income < 700000 THEN 0 ELSE tax_amount

\* Rebate u/s 87A for income up to 7 lakhs
rebate_87a(taxable_income, tax_amount) ==
  IF taxable_income <= 700000 THEN 0 ELSE tax_amount

\* tax_amount * 0.04
cess_of(tax_amount) == (tax_amount * 4) \div 100

\* round(x, 2) of x = total_tax / income * 100, in hundredths of a percent.
\* total_tax * 10 / income is taken as 10 * quotient + (10 * remainder) / income
\* to stay within TLC's integers.
round_2_truncating(total_tax, income) ==
  10 * (total_tax \div income) + (10 * (total_tax % income)) \div income

round_2(total_tax, income) ==
  10 * (total_tax \div income) + RoundHalfEven(10 * (total_tax % income), income)

effective_rate_of(total_tax, income) ==
  IF income > 0 THEN round_2(total_tax, income) ELSE 0

TaxCalculationResponse(req, total_deductions, taxable_income, tax_amount) ==
  LET cess == cess_of(tax_amount)
      total_tax == tax_amount + cess
  IN  [status |-> 200,
       gross_income |-> req.income,
       total_deductions |-> total_deductions,
       taxable_income |-> taxable_income,
       tax_amount |-> tax_amount,
       cess |-> cess,
       total_tax |-> total_tax,
       effective_rate |-> effective_rate_of(total_tax, req.income),
       regime |-> req.regime]

\* cess taken on the bracket tax, before the rebate
calculate_tax_cess_before_rebate(req) ==
  IF req.regime = "old"
  THEN LET total_deductions == old_regime_deductions(req)
           taxable_income == Max(0, req.income - total_deductions)
       IN  TaxCalculationResponse(req, total_deductions, taxable_income,
                                  calculate_tax_old_regime(taxable_income))
  ELSE LET total_deductions == new_regime_deductions(req)
           taxable_income == Max(0, req.income - total_deductions)
           bracket_tax == calculate_tax_new_regime(taxable_income)
           tax_amount == rebate_87a(taxable_income, bracket_tax)
           cess == cess_of(bracket_tax)
           total_tax == tax_amount + cess
       IN  [status |-> 200,
            gross_income |-> req.income,
            total_deductions |-> total_deductions,
            taxable_income |-> taxable_income,
            tax_amount |-> tax_amount,
            cess |-> cess,
            total_tax |-> total_tax,
            effective_rate |-> effective_rate_of(total_tax, req.income),
            regime |-> req.regime]

calculate_tax(req) ==
  IF req.regime = "old"
  THEN LET total_deductions == old_regime_deductions(req)
           taxable_income == Max(0, req.income - total_deductions)
       IN  TaxCalculationResponse(req, total_deductions, taxable_income,
                                  calculate_tax_old_regime(taxable_income))
  ELSE LET total_deductions == new_regime_deductions(req)
           taxable_income == Max(0, req.income - total_deductions)
           tax_amount == rebate_87a(taxable_income,
                                    calculate_tax_new_regime(taxable_income))
       IN  TaxCalculationResponse(req, total_deductions, taxable_income,
                                  tax_amount)

\* What the framework does with a body before the handler runs: it builds a
\* TaxCalculationRequest, which needs `income` and takes any string as regime.
ValidBody(body) == body.has_income

-----------------------------------------------------------------------------
(* Actions of the calculator *)

\* The body validates and the handler runs to its return.
CalculateTax ==
  /\ response = NoResponse
  /\ ValidBody(request)
  /\ response' = calculate_tax(request)
  /\ UNCHANGED <<request, chatVars>>

\* The body does not validate: 422, and the handler never runs.
RejectTaxRequest ==
  /\ response = NoResponse
  /\ ~ValidBody(request)
  /\ response' = [status |-> 422]
  /\ UNCHANGED <<request, chatVars>>


-----------------------------------------------------------------------------
(* POST /api/chat and DELETE /api/chat/history/{session_id} *)

\* Bounds of the chat model: the documents ever stored and the coroutines of
\* chat_with_assistant in flight at once.
MaxStored == 24
MaxInFlight == 1

Sessions == {"s1", "s2"}
Messages == {"q"}
Replies == {"a"}
Slots == 1..MaxInFlight

Idle == [pc |-> "idle"]

\* ChatMessage(...).model_dump(), the id left out
ChatMessage(session_id, role, content, timestamp) ==
  [session_id |-> session_id, role |-> role, content |-> content,
   timestamp |-> timestamp]

\* find({"session_id": session_id}): the matching documents
Find(collection, session_id) ==
  {collection[i] : i \in {j \in DOMAIN collection :
                            collection[j].session_id = session_id}}

Earliest(docs) ==
  CHOOSE d \in docs : \A e \in docs : d.timestamp <= e.timestamp

\* .sort("timestamp", 1)
RECURSIVE SortByTimestamp(_)
SortByTimestamp(docs) ==
  IF docs = {} THEN <<>>
  ELSE LET d == Earliest(docs)
       IN  <<d>> \o SortByTimestamp(docs \ {d})

\* .to_list(length): the first `length` documents of the cursor
ToList(cursor, length) == SubSeq(cursor, 1, Min(Len(cursor), length))

\* list[-n:]
LastN(list, n) == SubSeq(list, Max(1, Len(list) - n + 1), Len(list))

Upper(role) == IF role = "user" THEN "USER" ELSE "ASSISTANT"

\* f"{msg['role'].upper()}: {msg['content']}"
ContextLine(msg) == <<Upper(msg.role), msg.content>>

\* find(...).sort("timestamp", 1).to_list(20)
FetchHistory(collection, session_id) ==
  ToList(SortByTimestamp(Find(collection, session_id)), 20)

\* history[-10:]
ContextWindow(history) == LastN(history, 10)

\* full_message: the request's message alone when there is no context
FullMessage(context_messages, message) ==
  [previous_conversation |-> context_messages, new_question |-> message]

InFlight == Cardinality({h \in Slots : handlers[h].pc # "idle"})

\* The documents the handlers in flight may still store
Pending ==
  LET left(h) == IF handlers[h].pc \in {"fetch", "llm", "save_user"} THEN 2
                 ELSE IF handlers[h].pc = "save_assistant" THEN 1 ELSE 0
      RECURSIVE sum(_)
      sum(n) == IF n = 0 THEN 0 ELSE left(n) + sum(n - 1)
  IN  sum(MaxInFlight)

\* A request arrives and its coroutine starts (LlmChat is built).
ChatStart(h, session_id, message) ==
  /\ handlers[h].pc = "idle"
  /\ clock + Pending + 2 <= MaxStored
  /\ handlers' = [handlers EXCEPT ![h] =
       [pc |-> "fetch", session_id |-> session_id, message |-> message]]
  /\ UNCHANGED <<chat_messages, clock, taxVars>>

\* history is read and the context and full_message are built from it.
ChatFetchHistory(h) ==
  /\ handlers[h].pc = "fetch"
  /\ LET history == FetchHistory(chat_messages, handlers[h].session_id)
         context == ContextWindow(history)
         context_messages == [i \in DOMAIN context |-> ContextLine(context[i])]
     IN  handlers' = [handlers EXCEPT ![h] =
           [pc |-> "llm", session_id |-> handlers[h].session_id,
            message |-> handlers[h].message,
            context |-> context,
            full_message |-> FullMessage(context_messages, handlers[h].message)]]
  /\ UNCHANGED <<chat_messages, clock, taxVars>>

\* chat.send_message returns a response.
ChatLlmReplies(h, reply) ==
  /\ handlers[h].pc = "llm"
  /\ handlers' = [handlers EXCEPT ![h] =
       [pc |-> "save_user", session_id |-> handlers[h].session_id,
        message |-> handlers[h].message, response |-> reply]]
  /\ UNCHANGED <<chat_messages, clock, taxVars>>

\* chat.send_message raises: the handler answers 500 and stores nothing.
ChatLlmFails(h) ==
  /\ handlers[h].pc = "llm"
  /\ handlers' = [handlers EXCEPT ![h] = Idle]
  /\ UNCHANGED <<chat_messages, clock, taxVars>>

ChatSaveUser(h) ==
  /\ handlers[h].pc = "save_user"
  /\ chat_messages' = Append(chat_messages,
       ChatMessage(handlers[h].session_id, "user", handlers[h].message, clock))
  /\ clock' = clock + 1
  /\ handlers' = [handlers EXCEPT ![h].pc = "save_assistant"]
  /\ UNCHANGED taxVars

\* The assistant's message is stored and the handler answers.
ChatSaveAssistant(h) ==
  /\ handlers[h].pc = "save_assistant"
  /\ chat_messages' = Append(chat_messages,
       ChatMessage(handlers[h].session_id, "assistant", handlers[h].response,
                   clock))
  /\ clock' = clock + 1
  /\ handlers' = [handlers EXCEPT ![h] = Idle]
  /\ UNCHANGED taxVars

\* delete_many({"session_id": session_id})
DeleteMany(collection, session_id) ==
  SelectSeq(collection, LAMBDA d : d.session_id # session_id)

ClearChatHistory(session_id) ==
  /\ Find(chat_messages, session_id) # {}
  /\ chat_messages' = DeleteMany(chat_messages, session_id)
  /\ UNCHANGED <<clock, handlers, taxVars>>

-----------------------------------------------------------------------------
(* Specifications *)

EmptyDatabase ==
  /\ chat_messages = <<>>
  /\ clock = 0
  /\ handlers = [h \in Slots |-> Idle]

\* The calculator alone, on any one request body: it keeps nothing from one
\* request to the next and neither reads nor writes the database.
Init ==
  /\ request \in Bodies
  /\ response = NoResponse
  /\ EmptyDatabase

Next ==
  \/ CalculateTax
  \/ RejectTaxRequest

Spec == Init /\ [][Next]_vars

\* The chat endpoints, their coroutines interleaved at every await.
ChatNext ==
  \/ \E h \in Slots, session_id \in Sessions, message \in Messages :
       ChatStart(h, session_id, message)
  \/ \E h \in Slots : ChatFetchHistory(h)
  \/ \E h \in Slots, reply \in Replies : ChatLlmReplies(h, reply)
  \/ \E h \in Slots : ChatLlmFails(h)
  \/ \E h \in Slots : ChatSaveUser(h)
  \/ \E h \in Slots : ChatSaveAssistant(h)
  \/ \E session_id \in Sessions : ClearChatHistory(session_id)

ChatInit ==
  /\ request = NoRequest
  /\ response = NoResponse
  /\ EmptyDatabase

ChatSpec == ChatInit /\ [][ChatNext]_vars

-----------------------------------------------------------------------------
(* Properties of the calculator *)

Answered == response.status = 200

NoDeductions(req) ==
  /\ req.deductions_80c = 0
  /\ req.deductions_80d = 0
  /\ req.hra_exemption = 0
  /\ req.other_deductions = 0

\* The old-regime table as the specification prints it
OldRegimeTable(t) ==
  IF t <= 250000 THEN 0
  ELSE IF t <= 500000 THEN TimesRate(t - 250000, 5)
  ELSE IF t <= 1000000 THEN 12500000 + TimesRate(t - 500000, 20)
  ELSE 112500000 + TimesRate(t - 1000000, 30)

\* The new-regime table as the specification prints it, above the rebate
NewRegimeTableAboveRebate(t) ==
  IF t <= 1000000 THEN 20000000 + TimesRate(t - 700000, 10)
  ELSE IF t <= 1200000 THEN 50000000 + TimesRate(t - 1000000, 15)
  ELSE IF t <= 1500000 THEN 80000000 + TimesRate(t - 1200000, 20)
  ELSE 140000000 + TimesRate(t - 1500000, 30)

\* C1: under the old regime the base tax is the piecewise table of the taxable
\* income (0; 5% above 250000; 12500 + 20% above 500000; 112500 + 30% above
\* 1000000), and with no deductions a gross income of 250000 is taxed 0,
\* 500000 is taxed 12500 and 1000000 is taxed 112500.
C1_OldRegimeTable ==
  (Answered /\ request.regime = "old") =>
    /\ response.tax_amount = OldRegimeTable(response.taxable_income)
    /\ (NoDeductions(request) /\ request.income = 250000)
         => response.tax_amount = 0
    /\ (NoDeductions(request) /\ request.income = 500000)
         => response.tax_amount = 12500000
    /\ (NoDeductions(request) /\ request.income = 1000000)
         => response.tax_amount = 112500000

C1_Witness ==
  /\ Answered
  /\ request.regime = "old"
  /\ NoDeductions(request)
  /\ request.income = 1000000
  /\ response.tax_amount = 112500000

\* C2: under the new regime the base tax is 0 up to a taxable income of 700000,
\* 700000 included, and the bracket table above it; under the old regime a
\* taxable income the brackets tax is never zeroed by the rebate.
C2_NewRegimeRebateAndTable ==
  Answered =>
    /\ request.regime = "new" =>
         response.tax_amount =
           IF response.taxable_income <= 700000 THEN 0
           ELSE NewRegimeTableAboveRebate(response.taxable_income)
    /\ (request.regime = "old" /\ response.taxable_income > 250000) =>
         response.tax_amount > 0

C2_Witness ==
  /\ Answered
  /\ request.regime = "new"
  /\ response.taxable_income = 700000
  /\ response.tax_amount = 0

\* C3 as stated: under the new regime a taxable income of 700001 is taxed
\* (700001 - 300000) * 0.05 = 20000.05.
C3_JustAboveRebateAtFivePercent ==
  (Answered /\ request.regime = "new" /\ response.taxable_income = 700001)
    => response.tax_amount = 20000050

\* C3 as amended: under the new regime a taxable income of 700001 gets no
\* rebate and is taxed by the 10% bracket, 20000 + (700001 - 700000) * 0.10
\* = 20000.10.
C3_JustAboveRebateAtTenPercent ==
  (Answered /\ request.regime = "new" /\ response.taxable_income = 700001)
    => response.tax_amount = 20000100

C3_Witness ==
  /\ Answered
  /\ request.regime = "new"
  /\ response.taxable_income = 700001
  /\ response.tax_amount > 0

\* C4: under the old regime total_deductions is 80C capped at 150000 plus 80D
\* capped at 75000 plus HRA plus the other deductions, taxable income is gross
\* income less that and never below 0, and 1200000 with 80C 200000, 80D 30000,
\* HRA 50000 gives deductions 230000, taxable 970000, tax 106500, cess 4260,
\* total 110760.
C4_OldRegimeDeductions ==
  (Answered /\ request.regime = "old") =>
    /\ response.total_deductions =
         Min(request.deductions_80c, 150000)
           + Min(request.deductions_80d, 75000)
           + request.hra_exemption + request.other_deductions
    /\ response.taxable_income =
         Max(0, request.income - response.total_deductions)
    /\ ( /\ request.income = 1200000
         /\ request.deductions_80c = 200000
         /\ request.deductions_80d = 30000
         /\ request.hra_exemption = 50000
         /\ request.other_deductions = 0 )
       => /\ response.total_deductions = 230000
          /\ response.taxable_income = 970000
          /\ response.tax_amount = 106500000
          /\ response.cess = 4260000
          /\ response.total_tax = 110760000

C4_Witness ==
  /\ Answered
  /\ request.regime = "old"
  /\ request.income = 1200000
  /\ request.deductions_80c = 200000
  /\ request.deductions_80d = 30000
  /\ request.hra_exemption = 50000
  /\ request.other_deductions = 0
  /\ response.total_tax = 110760000

\* C5: under the new regime total_deductions is 75000 whatever the itemized
\* deductions, and the same request with any other itemized deductions gets
\* the same response in every field.
C5_NewRegimeIgnoresItemized ==
  (Answered /\ request.regime = "new") =>
    /\ response.total_deductions = 75000
    /\ \A c \in Deductions80C, d \in Deductions80D,
          h \in HraExemptions, o \in OtherDeductions :
         calculate_tax([request EXCEPT !.deductions_80c = c,
                                       !.deductions_80d = d,
                                       !.hra_exemption = h,
                                       !.other_deductions = o]) = response

C5_Witness ==
  /\ Answered
  /\ request.regime = "new"
  /\ request.deductions_80c = 200000
  /\ request.other_deductions = 20000
  /\ response.total_tax > 0

\* C6: with the regime (old or new) and the deductions fixed, a larger gross
\* income never has a smaller total tax.
C6_TotalTaxMonotone ==
  (Answered /\ request.regime \in {"old", "new"}) =>
    \A g \in Incomes :
      g >= request.income =>
        calculate_tax([request EXCEPT !.income = g]).total_tax
          >= response.total_tax

C6_Witness ==
  /\ Answered
  /\ request.regime = "new"
  /\ request.income = 775001
  /\ response.total_tax > 0
  /\ calculate_tax([request EXCEPT !.income = 775000]).total_tax = 0

\* C7: cess is 4% of the base tax returned, so 0 when the rebate zeroed it,
\* and total tax is base tax plus cess.
C7_CessFourPercent ==
  Answered =>
    /\ response.cess * 100 = response.tax_amount * 4
    /\ response.total_tax = response.tax_amount + response.cess
    /\ (request.regime = "new" /\ response.taxable_income <= 700000)
         => response.cess = 0

C7_Witness ==
  /\ Answered
  /\ request.regime = "new"
  /\ response.taxable_income = 500000
  /\ response.cess = 0

\* C8: a request whose regime is neither "old" nor "new" is answered with a
\* client error and gets no tax result.
C8_UnknownRegimeRejected ==
  (response # NoResponse /\ request.regime \notin {"old", "new"})
    => response.status \in 400..499

\* C9 as stated: a gross income of 0 gets effective rate 0, and a positive
\* one gets total_tax / income * 100 (here: rate * income = total_tax * 10,
\* in the units of the model).
C9_EffectiveRateExact ==
  Answered =>
    IF request.income = 0 THEN response.effective_rate = 0
    ELSE LET q == response.total_tax \div request.income
             r == response.total_tax % request.income
             e == response.effective_rate - 10 * q
         IN  e \in 0..10 /\ e * request.income = 10 * r

\* C9 as amended: a gross income of 0 gets effective rate 0 without a
\* division, and a positive one gets total_tax / income * 100 rounded to two
\* decimal places: the hundredth nearest to it.
C9_EffectiveRateRounded ==
  Answered =>
    IF request.income = 0 THEN response.effective_rate = 0
    ELSE LET q == response.total_tax \div request.income
             r == response.total_tax % request.income
             e == response.effective_rate - 10 * q
             diff == e * request.income - 10 * r
         IN  /\ e \in 0..10
             /\ 2 * diff <= request.income
             /\ 2 * (0 - diff) <= request.income

C9_Witness ==
  /\ Answered
  /\ request.income = 0
  /\ request.regime = "old"
  /\ request.deductions_80c = 200000
  /\ response.effective_rate = 0

-----------------------------------------------------------------------------
(* Properties of the chat *)

\* C10: the context a handler builds is the last 10 documents stored for its
\* session, oldest first (all of them when there are fewer, none when there
\* are none), and holds no document of another session.
C10_ContextIsLastTenStored ==
  [][\A h \in Slots :
       (handlers[h].pc = "fetch" /\ handlers'[h].pc = "llm") =>
         LET stored ==
               SortByTimestamp(Find(chat_messages, handlers[h].session_id))
             latest == LastN(stored, 10)
         IN  /\ handlers'[h].context = latest
             /\ handlers'[h].full_message.previous_conversation =
                  [i \in DOMAIN latest |-> ContextLine(latest[i])]
             /\ \A i \in DOMAIN handlers'[h].context :
                  handlers'[h].context[i].session_id = handlers[h].session_id
    ]_vars

=============================================================================
